---- MODULE Spec2Model ----
(***************************************************************************)
(* Campaign progress/resume engine of vSendGrid-Client (src/mail.py) and   *)
(* the batch triggers of its GUI (src/mail_gui.py).                        *)
(*                                                                         *)
(* Strings are modelled over a small universe of addresses and CSV cells;  *)
(* str.lower() and str.strip() are tables over that universe.  Timestamps  *)
(* (datetime.now().isoformat()) are abstracted: an attempt record carries  *)
(* no timestamp field and campaign_stats.last_run is 0 (None) or 1 (set).  *)
(***************************************************************************)
EXTENDS Integers, Sequences, FiniteSets, TLC

VARIABLES
    settings_csv,   \* SETTINGS["csv_file"]: the active recipient source
    env,            \* module globals and content file: api key, sender, email.html/.txt
    files,          \* progress/<stem>_progress.json, by stem
    run,            \* one record per worker thread running run_email_campaign
    sends,          \* history: number of sg.send calls made for each address
    writers,        \* history: sources whose runs wrote the records now in each ledger file
    runs_started,   \* history: number of batch runs started
    api             \* an EmailCampaignManager / SendGridEmailer object driven call by call

vars == <<settings_csv, env, files, run, sends, writers, runs_started, api>>

----------------------------------------------------------------------------
(* Bounds *)

MaxRuns == 2        \* batch runs started in one behaviour
MaxBatch == 2       \* largest custom batch size entered in the dialog
MaxCalls == 2       \* mark_email_sent / send_email calls made on a driven object
MaxRecipients == 2  \* length of the to_emails list of a send_email call
MaxRows == 3        \* data rows of a source file read on its own

(* Program constants *)

DefaultBatchSize == 5000    \* run_email_campaign(batch_size=5000)

Threads == {1, 2}

----------------------------------------------------------------------------
(* Strings *)

\* Addresses that occur in ledgers, recipient lists and calls.
Addresses == {"a@x.com", "A@X.COM", "b@x.com", "q@x.c", "z@x.com"}

\* str.lower() on the universe of strings used here.
Lower(s) ==
    CASE s = "A@X.COM" -> "a@x.com"
      [] s = "jos<C3><A9>@x.com" -> "jos<E3><A9>@x.com"
      [] OTHER -> s

\* str.strip() on the universe of strings used here.
Strip(s) ==
    CASE s = " b@x.com " -> "b@x.com"
      [] s = " A@X.COM " -> "A@X.COM"
      [] s = "   " -> ""
      [] OTHER -> s

\* SendGridEmailer.validate_email: the regular expression of line 77
\* (the top-level domain needs two letters, so "q@x.c" is rejected).
validate_email(email) == email \in {"a@x.com", "A@X.COM", "b@x.com", "z@x.com", "s@x.com"}

\* The row filter of load_email_list (lines 251-252): non-empty, has "@" and
\* ".", and splits on "@" in exactly two parts.
AcceptedCell(v) ==
    v \in {"a@x.com", "A@X.COM", "b@x.com", "q@x.c", "z@x.com",
           "jos<E9>@x.com", "jos<C3><A9>@x.com"}

Min(a, b) == IF a < b THEN a ELSE b

Range(s) == {s[k] : k \in 1..Len(s)}

----------------------------------------------------------------------------
(* Recipient sources *)

\* A source path: directory, base name without extension, extension.
Sources ==
    { [dir |-> "d1", stem |-> "list",  ext |-> "csv"],
      [dir |-> "d2", stem |-> "list",  ext |-> "csv"],
      [dir |-> "d1", stem |-> "other", ext |-> "csv"] }

\* The cells of the address column of each source file.
CsvCells(csv_file) ==
    CASE csv_file.dir = "d1" /\ csv_file.stem = "list"  -> <<"a@x.com", " A@X.COM ", " b@x.com ">>
      [] csv_file.dir = "d2" /\ csv_file.stem = "list"  -> <<" b@x.com ", "q@x.c">>
      [] OTHER -> <<"bad">>

\* EmailCampaignManager.__init__: progress/<splitext(basename(csv))[0]>_progress.json.
\* basename drops the directory, splitext drops the extension; ledger files
\* are named here by the remaining stem.
ProgressFile(csv_file) == csv_file.stem

LedgerNames == {ProgressFile(s) : s \in Sources}

\* list(dict.fromkeys(emails)): first occurrences, in order.
RECURSIVE Dedup(_)
Dedup(s) ==
    IF s = <<>> THEN <<>>
    ELSE LET front == Dedup(SubSeq(s, 1, Len(s) - 1))
             last  == s[Len(s)]
         IN IF last \in Range(front) THEN front ELSE Append(front, last)

\* The rows loop of load_email_list (lines 249-253).
RECURSIVE ReadRows(_)
ReadRows(cells) ==
    IF cells = <<>> THEN <<>>
    ELSE LET email_value == Strip(cells[1])
             rest == ReadRows(Tail(cells))
         IN IF AcceptedCell(email_value)
            THEN <<Lower(email_value)>> \o rest
            ELSE rest

\* encodings_to_try (line 229).
Encodings == <<"utf-8", "utf-8-sig", "iso-8859-1", "cp1252">>

\* A row with fewer fields than the header: csv.DictReader fills the address
\* column with None, so row.get(email_column, '') is None (line 250).
NoCell == "<None>"

\* The one non-ASCII text used here, an address with U+00E9 ("<E9>"), and
\* what its UTF-8 bytes C3 A9 read as under iso-8859-1 and cp1252.
NonAscii == "jos<E9>@x.com"
Mojibake == "jos<C3><A9>@x.com"
DecodeError == "<UnicodeDecodeError>"

\* A source file: the address column's cells as text, the encoding its
\* bytes are in, and whether it is long enough to be decoded in several
\* chunks (rows of earlier chunks reach the reader before a later chunk fails).
CsvFile(rows, bytes, chunked) == [rows |-> rows, bytes |-> bytes, chunked |-> chunked]

\* open(..., encoding=encoding): a cell stored in `bytes` as the reader gets it.
DecodeCell(cell, bytes, encoding) ==
    CASE cell # NonAscii -> cell
      [] bytes = "utf-8" /\ encoding \in {"utf-8", "utf-8-sig"} -> NonAscii
      [] bytes = "utf-8" -> Mojibake
      [] encoding \in {"utf-8", "utf-8-sig"} -> DecodeError
      [] OTHER -> NonAscii

\* One pass of the encoding loop (lines 231-258): the cells that reach the
\* row filter before the pass ends, and whether it ended without an
\* exception.  UnicodeDecodeError (line 254) ends the pass at the chunk that
\* does not decode; a None cell raises AttributeError at line 250 (line 256).
ReadUnder(file, encoding) ==
    LET n == Len(file.rows)
        decoded == [k \in 1..n |-> DecodeCell(file.rows[k], file.bytes, encoding)]
        undecodable == {k \in 1..n : decoded[k] = DecodeError}
        stops == {k \in 1..n : decoded[k] \in {DecodeError, NoCell}}
        stop == IF stops = {} THEN n + 1
                ELSE CHOOSE k \in stops : \A j \in stops : k <= j
    IN IF undecodable # {} /\ ~file.chunked
       THEN [cells |-> <<>>, ok |-> FALSE]
       ELSE [cells |-> SubSeq(decoded, 1, stop - 1), ok |-> stop = n + 1]

\* EmailCampaignManager.load_email_list on a file that has an address
\* column: `emails` is created once (line 224) and every pass of the loop
\* appends to it; nothing leaves the loop after a pass that succeeded.
load_email_list_from(file) ==
    LET emails == ReadRows(ReadUnder(file, Encodings[1]).cells)
                  \o ReadRows(ReadUnder(file, Encodings[2]).cells)
                  \o ReadRows(ReadUnder(file, Encodings[3]).cells)
                  \o ReadRows(ReadUnder(file, Encodings[4]).cells)
    IN IF emails = <<>> THEN <<>> ELSE Dedup(emails)

\* The file at a source path.
FileAt(csv_file) == CsvFile(CsvCells(csv_file), "utf-8", FALSE)

\* What load_email_list returns for each source path.
LoadedLists == [csv_file \in Sources |-> load_email_list_from(FileAt(csv_file))]

\* EmailCampaignManager.load_email_list.
load_email_list(csv_file) == LoadedLists[csv_file]

----------------------------------------------------------------------------
(* Ledger *)

\* An element of sent_emails.  isdict = FALSE is a bare address string (then
\* email is the string).  success is "T", "F" or "none" (key absent); a dict
\* without an "email" key has email = "".
Entry(isdict, email, success, error) ==
    [isdict |-> isdict, email |-> email, success |-> success, error |-> error]

Stats(total_sent, successful, failed, last_run) ==
    [total_sent |-> total_sent, successful |-> successful, failed |-> failed,
     last_run |-> last_run]

\* The ledger load_progress returns when there is no usable file (lines 211, 214).
\* Its campaign_stats has no successful/failed keys; they read as 0 (lines 318-319).
FreshLedger == [sent_emails |-> <<>>, campaign_stats |-> Stats(0, 0, 0, 0)]

\* item.get("email", "") for a dict, str(item) otherwise (lines 271-274, 295-298).
EntryEmail(item) == item.email

\* A ledger file: absent, unparseable, or JSON holding a ledger.
AbsentFile == [kind |-> "absent", data |-> FreshLedger]
CorruptFile == [kind |-> "corrupt", data |-> FreshLedger]
JsonFile(progress_data) == [kind |-> "json", data |-> progress_data]

\* A file that parses as JSON but not to an object (a list, a number, ...):
\* progress.get raises inside load_progress's try (line 207).
NonObjectFile == [kind |-> "json_non_object", data |-> FreshLedger]

\* A JSON value that is not an object, where the ledger has one.
NotAnObject == [json_type |-> "list"]

\* A file that parses to an object whose campaign_stats is not an object,
\* e.g. {"sent_emails": [], "campaign_stats": []}.
MisshapenLedger == [sent_emails |-> <<>>, campaign_stats |-> NotAnObject]

\* EmailCampaignManager.load_progress: whatever json.load gives is returned
\* when len(progress.get('sent_emails', [])) can be evaluated (lines 206-208);
\* no file, or any exception, gives the fresh ledger (lines 211, 214).
load_progress(file) == IF file.kind = "json" THEN file.data ELSE FreshLedger

\* EmailCampaignManager.get_campaign_stats raises: stats.get on a
\* campaign_stats that is not a dict (lines 311, 318).
get_campaign_stats_raises(progress_data) == progress_data.campaign_stats = NotAnObject

\* mark_email_sent changed to record successful sends only.
mark_email_sent_SuccessOnly(progress_data, email, success, error_message) ==
    LET sent_emails == IF success
                       THEN Append(progress_data.sent_emails, Entry(TRUE, email, "T", ""))
                       ELSE progress_data.sent_emails
    IN [sent_emails |-> sent_emails,
        campaign_stats |-> Stats(Len(sent_emails), Len(sent_emails), 0,
                                 progress_data.campaign_stats.last_run)]

\* EmailCampaignManager.mark_email_sent (the record has no timestamp here).
mark_email_sent(progress_data, email, success, error_message) ==
    LET email_record == Entry(TRUE, email, IF success THEN "T" ELSE "F", error_message)
        existing_emails == {EntryEmail(progress_data.sent_emails[k]) :
                               k \in 1..Len(progress_data.sent_emails)}
        sent_emails == IF email \notin existing_emails
                       THEN Append(progress_data.sent_emails, email_record)
                       ELSE progress_data.sent_emails
        successful == Cardinality({k \in 1..Len(sent_emails) :
                          sent_emails[k].isdict /\ sent_emails[k].success = "T"})
        failed == Cardinality({k \in 1..Len(sent_emails) :
                      sent_emails[k].isdict /\ sent_emails[k].success = "F"})
    IN [sent_emails |-> sent_emails,
        campaign_stats |-> Stats(Len(sent_emails), successful, failed,
                                 progress_data.campaign_stats.last_run)]

\* sent_email_addresses changed to keep the addresses as stored (no .lower()).
SentAddresses_AsStored(progress_data) ==
    {EntryEmail(progress_data.sent_emails[k]) : k \in 1..Len(progress_data.sent_emails)}

\* The set sent_email_addresses of get_unsent_emails (lines 269-276).
SentAddresses(progress_data) ==
    {Lower(EntryEmail(progress_data.sent_emails[k])) :
        k \in {j \in 1..Len(progress_data.sent_emails) :
                  EntryEmail(progress_data.sent_emails[j]) # ""}}

\* The list unsent_emails of get_unsent_emails (line 277).
UnsentEmails(progress_data, all_emails) ==
    SelectSeq(all_emails, LAMBDA email : Lower(email) \notin SentAddresses(progress_data))

\* random.sample(population, k): every sequence of k distinct members.
Samples(population, k) ==
    {s \in [1..k -> Range(population)] : \A i, j \in 1..k : i # j => s[i] # s[j]}

\* EmailCampaignManager.get_unsent_emails: the lists it can return.
get_unsent_emails(progress_data, all_emails, limit) ==
    LET unsent_emails == UnsentEmails(progress_data, all_emails)
    IN IF unsent_emails = <<>> THEN {<<>>}
       ELSE Samples(unsent_emails, Min(limit, Len(unsent_emails)))

\* EmailCampaignManager.get_campaign_stats: emails_remaining (line 317).
emails_remaining(progress_data, all_emails) ==
    Len(all_emails) - Len(progress_data.sent_emails)

\* save_progress changed to rebuild the stats when it stamps them.
StampLastRun_ResetStats(progress_data) ==
    [progress_data EXCEPT !.campaign_stats = Stats(0, 0, 0, 1)]

\* EmailCampaignManager.save_progress: the in-memory ledger after the call;
\* last_run is stamped before the file is opened (line 217).
StampLastRun(progress_data) ==
    [progress_data EXCEPT !.campaign_stats.last_run = 1]

\* save_progress changed to leave the file as it is.
save_progress_NotWritten(file, progress_data, io) == file

\* EmailCampaignManager.save_progress: the file after the call.  io = "ok": the
\* ledger is written; "open_fails": open() raises and the file is untouched;
\* "write_fails": open(..., 'w') truncated the file and json.dump raised.
save_progress(file, progress_data, io) ==
    CASE io = "ok" -> JsonFile(StampLastRun(progress_data))
      [] io = "open_fails" -> file
      [] OTHER -> CorruptFile

IoOutcomes == {"ok", "open_fails", "write_fails"}

----------------------------------------------------------------------------
(* Sending one message *)

\* What send_campaign_email returns: success, the 'error' key (has_error says
\* whether the key is present) and whether sg.send was called.
Result(success, has_error, error, called) ==
    [success |-> success, has_error |-> has_error, error |-> error, called |-> called]

NoResult == Result(FALSE, FALSE, "", FALSE)

\* What sg.send (line 109) can do: answer 2xx, answer another status, raise.
GatewayResults ==
    { Result(TRUE, FALSE, "", TRUE),
      Result(FALSE, FALSE, "", TRUE),
      Result(FALSE, TRUE, "gateway raised", TRUE) }

\* send_email changed to validate the first recipient only.
send_email_FirstRecipientOnly(from_email, to_emails, subject, plain_text_content, html_content) ==
    IF ~validate_email(from_email)
    THEN {Result(FALSE, TRUE, "Invalid sender email", FALSE)}
    ELSE IF to_emails = <<>>
    THEN {Result(FALSE, TRUE, "At least one recipient email is required", FALSE)}
    ELSE IF ~validate_email(to_emails[1])
    THEN {Result(FALSE, TRUE, "Invalid recipient email", FALSE)}
    ELSE IF Strip(subject) = ""
    THEN {Result(FALSE, TRUE, "Email subject cannot be empty", FALSE)}
    ELSE IF plain_text_content = "" /\ html_content = ""
    THEN {Result(FALSE, TRUE, "Either plain text or HTML content is required", FALSE)}
    ELSE GatewayResults

\* SendGridEmailer.send_email: the results it can return.  The checks of
\* lines 83-93 raise ValueError, which line 128 turns into a failure result;
\* only then is the message built and handed to sg.send (line 109).
send_email(from_email, to_emails, subject, plain_text_content, html_content) ==
    IF ~validate_email(from_email)
    THEN {Result(FALSE, TRUE, "Invalid sender email", FALSE)}
    ELSE IF to_emails = <<>>
    THEN {Result(FALSE, TRUE, "At least one recipient email is required", FALSE)}
    ELSE IF \E k \in 1..Len(to_emails) : ~validate_email(to_emails[k])
    THEN {Result(FALSE, TRUE, "Invalid recipient email", FALSE)}
    ELSE IF Strip(subject) = ""
    THEN {Result(FALSE, TRUE, "Email subject cannot be empty", FALSE)}
    ELSE IF plain_text_content = "" /\ html_content = ""
    THEN {Result(FALSE, TRUE, "Either plain text or HTML content is required", FALSE)}
    ELSE GatewayResults

\* SENDER_EMAIL of the settings (line 55).
SENDER_EMAIL(e) == IF e.sender_valid THEN "s@x.com" ELSE "sender"

\* read_email_content for email.html: the subject is the stripped rest of the
\* SUBJECT: line (line 150), the plain text is '' (line 152).
read_email_content(e) ==
    [subject |-> IF e.content = "blank_subject" THEN "" ELSE "Hello",
     plain_text_message |-> "",
     html_message |-> "<p>Hi</p>"]

\* send_campaign_email: read_email_content raising (no email.html or
\* email.txt) is returned as a failure without reaching send_email.
send_campaign_email(e, recipient_email) ==
    IF e.content = "missing"
    THEN {Result(FALSE, TRUE, "No email.html or email.txt found", FALSE)}
    ELSE LET content == read_email_content(e)
         IN send_email(SENDER_EMAIL(e), <<recipient_email>>, content.subject,
                       content.plain_text_message, content.html_message)

\* error_msg of run_email_campaign (line 362).
ErrorMsg(result) == IF result.has_error THEN result.error ELSE "Unknown error"

----------------------------------------------------------------------------
(* Initial states *)

E_a_ok == Entry(TRUE, "a@x.com", "T", "")
E_a_failed == Entry(TRUE, "a@x.com", "F", "Unknown error")
E_b_failed == Entry(TRUE, "b@x.com", "F", "gateway raised")
E_A_string == Entry(FALSE, "A@X.COM", "none", "")
E_b_nosuccess == Entry(TRUE, "b@x.com", "none", "")
E_z_ok == Entry(TRUE, "z@x.com", "T", "")

\* Ledger files the program can find on disk: none, an unparseable one, files
\* written by earlier runs, and files in the older shapes the code accepts
\* (bare address strings, records without a success field).
InitLedgerFiles ==
    { AbsentFile,
      CorruptFile,
      JsonFile([sent_emails |-> <<E_a_ok>>, campaign_stats |-> Stats(1, 1, 0, 1)]),
      JsonFile([sent_emails |-> <<E_a_failed>>, campaign_stats |-> Stats(1, 0, 1, 1)]),
      JsonFile([sent_emails |-> <<E_a_ok, E_b_failed>>, campaign_stats |-> Stats(2, 1, 1, 1)]),
      JsonFile([sent_emails |-> <<E_z_ok>>, campaign_stats |-> Stats(1, 1, 0, 1)]),
      JsonFile([sent_emails |-> <<E_a_ok, E_z_ok>>, campaign_stats |-> Stats(2, 2, 0, 1)]),
      JsonFile([sent_emails |-> <<E_a_ok, E_b_failed, E_z_ok>>,
                campaign_stats |-> Stats(3, 2, 1, 1)]),
      JsonFile([sent_emails |-> <<E_A_string>>, campaign_stats |-> Stats(1, 0, 0, 1)]),
      JsonFile([sent_emails |-> <<E_b_nosuccess>>, campaign_stats |-> Stats(1, 0, 0, 1)]) }

\* The progress directory at start: the ledger of the "list" sources is any
\* of the above or a JSON file without the ledger's shape; the "other"
\* sources have none, or one left by an earlier list.
InitFileSystems ==
    {[f \in LedgerNames |-> IF f = "list" THEN file ELSE AbsentFile] :
        file \in InitLedgerFiles \cup {NonObjectFile, JsonFile(MisshapenLedger)}}
    \cup {[f \in LedgerNames |-> IF f = "list" THEN AbsentFile ELSE
               JsonFile([sent_emails |-> <<E_z_ok>>, campaign_stats |-> Stats(1, 1, 0, 1)])]}

\* SENDGRID_API_KEY non-empty, SENDER_EMAIL well-formed, and the content file.
Env(api_key, sender_valid, content) ==
    [api_key |-> api_key, sender_valid |-> sender_valid, content |-> content]

EnvChoices ==
    { Env(TRUE, TRUE, "ok"),
      Env(FALSE, TRUE, "ok"),
      Env(TRUE, FALSE, "ok"),
      Env(TRUE, TRUE, "missing"),
      Env(TRUE, TRUE, "blank_subject") }

DefaultSource == [dir |-> "d1", stem |-> "list", ext |-> "csv"]

\* A worker thread that is not running a batch.
IdleRun(status) ==
    [pc |-> "idle", status |-> status, csv_file |-> DefaultSource,
     progress_data |-> FreshLedger, target_emails |-> <<>>, i |-> 0,
     result |-> NoResult, successful_sends |-> 0, failed_sends |-> 0,
     remaining |-> 0, unsent_n |-> 0, base |-> 0, read_from |-> {},
     outcomes |-> <<>>, saved_ok |-> FALSE,
     io |-> "none", before_save |-> FreshLedger, failed_persists |-> 0,
     ledger_state |-> "none", batch_size |-> 0]
\* (remaining, unsent_n, base, read_from, outcomes and saved_ok are history:
\* the counts the run decided on, the ledger length and file writers at load,
\* the results so far, and whether the last write of the run's ledger file
\* was this run's own successful save_progress.  io, before_save and
\* failed_persists are history too: how the run's last save_progress ended,
\* the in-memory ledger when it was called, and how many of the run's
\* save_progress calls failed; ledger_state is what the run found on disk and
\* batch_size the limit it was started with.)

\* The arguments of a send_email call.
SendCall(from_email, to_emails, subject, plain_text_content, html_content) ==
    [from_email |-> from_email, to_emails |-> to_emails, subject |-> subject,
     plain_text_content |-> plain_text_content, html_content |-> html_content]

\* The driven objects.  The manager: its source, its ledger, the ledger it
\* loaded, the last operation called, the last list get_unsent_emails
\* returned and the mark_email_sent calls made so far.  The emailer: the last
\* send_email call and what it returned, and the number of sg.send calls so
\* far and before the last send_email call.  The
\* source file read on its own and the list load_email_list returned for it.
IdleApi ==
    [csv_file |-> DefaultSource, progress_data |-> FreshLedger, loaded |-> FreshLedger,
     op |-> "none", result |-> <<>>, calls |-> <<>>,
     call |-> SendCall("", <<>>, "", "", ""), sent |-> NoResult,
     sg_calls |-> 0, sg_before |-> 0, n_calls |-> 0,
     file |-> CsvFile(<<>>, "utf-8", FALSE), emails |-> <<>>]

Init ==
    /\ settings_csv \in Sources
    /\ env \in EnvChoices
    /\ files \in InitFileSystems
    /\ run = [r \in Threads |-> IdleRun("none")]
    /\ sends = [a \in Addresses |-> 0]
    /\ writers = [f \in LedgerNames |-> {}]
    /\ runs_started = 0
    /\ api = IdleApi

----------------------------------------------------------------------------
(* One batch run: run_email_campaign on a worker thread *)

AllIdle == \A t \in Threads : run[t].pc = "idle"

\* threading.Thread(...).start(): a new thread; threads are interchangeable,
\* so the new one takes the least identity not in use.
NewThread(r) == run[r].pc = "idle" /\ \A t \in Threads : t < r => run[t].pc # "idle"

\* What a run finds where its ledger file should be.
LedgerState(file) ==
    CASE file.kind = "json" /\ file.data.campaign_stats = NotAnObject -> "misshapen"
      [] file.kind = "json" -> "ledger"
      [] OTHER -> file.kind

\* run_email_campaign up to the loop (lines 324-350): construct the manager
\* (which loads the ledger), decide on the status counts, sample the batch and
\* construct the emailer.
run_email_campaign(r, batch_size) ==
    LET csv_file == settings_csv
        progress_file == ProgressFile(csv_file)
        progress_data == load_progress(files[progress_file])
        all_emails == load_email_list(csv_file)
        remaining == emails_remaining(progress_data, all_emails)
        loaded == [IdleRun("none") EXCEPT
                      !.csv_file = csv_file,
                      !.progress_data = progress_data,
                      !.remaining = remaining,
                      !.unsent_n = Len(UnsentEmails(progress_data, all_emails)),
                      !.base = Len(progress_data.sent_emails),
                      !.ledger_state = LedgerState(files[progress_file]),
                      !.batch_size = batch_size,
                      !.read_from = IF files[progress_file].kind = "json"
                                    THEN writers[progress_file] ELSE {}]
        returned == [IdleRun("none") EXCEPT
                      !.csv_file = csv_file,
                      !.read_from = loaded.read_from,
                      !.ledger_state = loaded.ledger_state,
                      !.batch_size = batch_size,
                      !.remaining = remaining,
                      !.unsent_n = Len(UnsentEmails(progress_data, all_emails))]
    IN /\ NewThread(r)
       /\ runs_started < MaxRuns
       /\ runs_started' = runs_started + 1
       /\ \E target_emails \in get_unsent_emails(progress_data, all_emails, batch_size) :
             run' = [run EXCEPT ![r] =
                 IF get_campaign_stats_raises(progress_data)
                 THEN [returned EXCEPT !.status = "raised"]
                 ELSE IF remaining = 0 THEN [returned EXCEPT !.status = "complete"]
                 ELSE IF target_emails = <<>> THEN [returned EXCEPT !.status = "no_emails"]
                 ELSE IF ~env.api_key THEN [returned EXCEPT !.status = "no_key"]
                 ELSE [loaded EXCEPT !.status = "sending", !.pc = "send",
                                     !.target_emails = target_emails, !.i = 1]]
       /\ UNCHANGED <<settings_csv, env, files, sends, writers, api>>

\* EmailGUI.run_batch: a new thread runs run_email_campaign(batch_size=5000).
RunBatch(r) == run_email_campaign(r, DefaultBatchSize)

\* The Run button of the custom batch dialog: a positive batch size.
CustomBatch(r) == \E batch_size \in 1..MaxBatch : run_email_campaign(r, batch_size)

\* Lines 352-356: send_campaign_email for the current recipient.
SendStep(r) ==
    /\ run[r].pc = "send"
    /\ LET recipient_email == run[r].target_emails[run[r].i]
       IN \E result \in send_campaign_email(env, recipient_email) :
             /\ run' = [run EXCEPT ![r].pc = "mark", ![r].result = result,
                                   ![r].outcomes = Append(@, result)]
             /\ sends' = IF result.called
                         THEN [sends EXCEPT ![recipient_email] = @ + 1]
                         ELSE sends
    /\ UNCHANGED <<settings_csv, env, files, writers, runs_started, api>>

\* Lines 357-365: count the outcome and record it in the in-memory ledger.
MarkStep(r) ==
    /\ run[r].pc = "mark"
    /\ LET recipient_email == run[r].target_emails[run[r].i]
           result == run[r].result
       IN run' = [run EXCEPT
              ![r].pc = "save",
              ![r].successful_sends = IF result.success THEN @ + 1 ELSE @,
              ![r].failed_sends = IF result.success THEN @ ELSE @ + 1,
              ![r].progress_data =
                  IF result.success
                  THEN mark_email_sent(@, recipient_email, TRUE, "")
                  ELSE mark_email_sent(@, recipient_email, FALSE, ErrorMsg(result))]
    /\ UNCHANGED <<settings_csv, env, files, sends, writers, runs_started, api>>

\* Line 366 and the loop's advance: save_progress, then the next recipient or
\* the summary (lines 369-378) and the end of the thread.
SaveStep(r) ==
    /\ run[r].pc = "save"
    /\ \E io \in IoOutcomes :
          LET progress_file == ProgressFile(run[r].csv_file)
              last == run[r].i = Len(run[r].target_emails)
          IN /\ files' = [files EXCEPT ![progress_file] =
                              save_progress(@, run[r].progress_data, io)]
             /\ writers' = [writers EXCEPT ![progress_file] =
                              CASE io = "ok" -> run[r].read_from \cup {run[r].csv_file}
                                [] io = "open_fails" -> @
                                [] OTHER -> {}]
             /\ run' = [t \in Threads |->
                    IF t = r
                    THEN [run[r] EXCEPT
                            !.progress_data = StampLastRun(@),
                            !.saved_ok = (io = "ok"),
                            !.io = io,
                            !.before_save = run[r].progress_data,
                            !.failed_persists = IF io = "ok" THEN @ ELSE @ + 1,
                            !.pc = IF last THEN "idle" ELSE "send",
                            !.status = IF last THEN "finished" ELSE @,
                            !.i = IF last THEN @ ELSE @ + 1]
                    ELSE [run[t] EXCEPT
                            !.saved_ok = @ /\ (io = "open_fails"
                                \/ ProgressFile(run[t].csv_file) # progress_file)]]
    /\ UNCHANGED <<settings_csv, env, sends, runs_started, api>>

\* The process is terminated while a batch is running: every thread and its
\* in-memory ledger is gone, the files stay as they are.
Kill ==
    /\ \E t \in Threads : run[t].pc # "idle"
    /\ run' = [t \in Threads |-> IdleRun("killed")]
    /\ UNCHANGED <<settings_csv, env, files, sends, writers, runs_started, api>>

\* EmailGUI.change_csv: the operator picks another source file.
change_csv ==
    /\ \E new_csv \in Sources \ {settings_csv} : settings_csv' = new_csv
    /\ UNCHANGED <<env, files, run, sends, writers, runs_started, api>>

\* The operator presses a button only when no batch is running.
Next ==
    \/ \E r \in Threads : AllIdle /\ RunBatch(r)
    \/ \E r \in Threads : AllIdle /\ CustomBatch(r)
    \/ \E r \in Threads : SendStep(r)
    \/ \E r \in Threads : MarkStep(r)
    \/ \E r \in Threads : SaveStep(r)
    \/ Kill
    \/ AllIdle /\ change_csv

Spec == Init /\ [][Next]_vars

\* The GUI as written: every press of Run Batch or Custom Batch starts a
\* thread, whether or not a batch is running (the source stays the same).
NextGui ==
    \/ \E r \in Threads : RunBatch(r)
    \/ \E r \in Threads : CustomBatch(r)
    \/ \E r \in Threads : SendStep(r)
    \/ \E r \in Threads : MarkStep(r)
    \/ \E r \in Threads : SaveStep(r)
    \/ Kill

\* One list, no history or one recorded address, everything configured.
InitGui ==
    /\ settings_csv = DefaultSource
    /\ env = Env(TRUE, TRUE, "ok")
    /\ files \in {[f \in LedgerNames |-> AbsentFile],
                  [f \in LedgerNames |-> IF f = "list"
                      THEN JsonFile([sent_emails |-> <<E_a_ok>>, campaign_stats |-> Stats(1, 1, 0, 1)])
                      ELSE AbsentFile]}
    /\ run = [r \in Threads |-> IdleRun("none")]
    /\ sends = [a \in Addresses |-> 0]
    /\ writers = [f \in LedgerNames |-> {}]
    /\ runs_started = 0
    /\ api = IdleApi

SpecGui == InitGui /\ [][NextGui]_vars

----------------------------------------------------------------------------
(* An EmailCampaignManager object driven call by call *)

\* EmailCampaignManager(csv_file): the constructor loads the ledger.
InitApi ==
    /\ settings_csv = DefaultSource
    /\ env = Env(TRUE, TRUE, "ok")
    /\ files = [f \in LedgerNames |-> AbsentFile]
    /\ run = [r \in Threads |-> IdleRun("none")]
    /\ sends = [a \in Addresses |-> 0]
    /\ writers = [f \in LedgerNames |-> {}]
    /\ runs_started = 0
    /\ \E csv_file \in Sources, file \in InitLedgerFiles :
          api = [IdleApi EXCEPT !.csv_file = csv_file,
                                !.progress_data = load_progress(file),
                                !.loaded = load_progress(file),
                                !.op = "load"]

CallAddresses == {"a@x.com", "A@X.COM", "b@x.com"}
CallErrors == {"", "Unknown error"}

ApiMarkEmailSent ==
    /\ Len(api.calls) < MaxCalls
    /\ \E email \in CallAddresses, success \in BOOLEAN, error_message \in CallErrors :
          api' = [api EXCEPT
              !.progress_data = mark_email_sent(@, email, success, error_message),
              !.op = "mark_email_sent",
              !.calls = Append(@, [email |-> email, success |-> success,
                                   error |-> error_message])]
    /\ UNCHANGED <<settings_csv, env, files, run, sends, writers, runs_started>>

ApiGetUnsentEmails ==
    /\ \E limit \in 1..MaxBatch :
          \E selected_emails \in get_unsent_emails(api.progress_data,
                                                   load_email_list(api.csv_file), limit) :
             api' = [api EXCEPT !.op = "get_unsent_emails", !.result = selected_emails]
    /\ UNCHANGED <<settings_csv, env, files, run, sends, writers, runs_started>>

NextApi ==
    \/ ApiMarkEmailSent
    \/ ApiGetUnsentEmails

SpecApi == InitApi /\ [][NextApi]_vars

----------------------------------------------------------------------------
(* A SendGridEmailer object driven call by call *)

InitSend ==
    /\ settings_csv = DefaultSource
    /\ env = Env(TRUE, TRUE, "ok")
    /\ files = [f \in LedgerNames |-> AbsentFile]
    /\ run = [r \in Threads |-> IdleRun("none")]
    /\ sends = [a \in Addresses |-> 0]
    /\ writers = [f \in LedgerNames |-> {}]
    /\ runs_started = 0
    /\ api = IdleApi

SenderChoices == {"s@x.com", "sender"}
RecipientChoices == {"a@x.com", "b@x.com", "q@x.c"}
SubjectChoices == {"Hello", "   "}
PlainChoices == {"", "Hi"}
HtmlChoices == {"", "<p>Hi</p>"}

\* The lists of at most n recipients.
RecipientLists(n) == UNION {[1..k -> RecipientChoices] : k \in 0..n}

\* One call of send_email; sg.send is reached exactly when the result says so.
ApiSendEmail ==
    /\ api.n_calls < MaxCalls
    /\ \E from_email \in SenderChoices, to_emails \in RecipientLists(MaxRecipients),
          subject \in SubjectChoices, plain_text_content \in PlainChoices,
          html_content \in HtmlChoices :
          \E result \in send_email(from_email, to_emails, subject,
                                    plain_text_content, html_content) :
             api' = [api EXCEPT
                 !.op = "send_email",
                 !.call = SendCall(from_email, to_emails, subject,
                                   plain_text_content, html_content),
                 !.sent = result,
                 !.sg_before = api.sg_calls,
                 !.sg_calls = IF result.called THEN @ + 1 ELSE @,
                 !.n_calls = @ + 1]
    /\ UNCHANGED <<settings_csv, env, files, run, sends, writers, runs_started>>

NextSend == ApiSendEmail

SpecSend == InitSend /\ [][NextSend]_vars

----------------------------------------------------------------------------
(* load_email_list on a source file read on its own *)

\* Cells of the address column: addresses in several spellings, a cell the
\* row filter rejects, a non-ASCII address and a row without the cell.
CellChoices == {"a@x.com", " A@X.COM ", " b@x.com ", "bad", NonAscii, NoCell}

\* The files of at most n data rows.
CsvFiles(n) ==
    {CsvFile(rows, bytes, chunked) :
        rows \in UNION {[1..k -> CellChoices] : k \in 0..n},
        bytes \in {"utf-8", "iso-8859-1"},
        chunked \in BOOLEAN}

InitLoad ==
    /\ settings_csv = DefaultSource
    /\ env = Env(TRUE, TRUE, "ok")
    /\ files = [f \in LedgerNames |-> AbsentFile]
    /\ run = [r \in Threads |-> IdleRun("none")]
    /\ sends = [a \in Addresses |-> 0]
    /\ writers = [f \in LedgerNames |-> {}]
    /\ runs_started = 0
    /\ \E file \in CsvFiles(MaxRows) : api = [IdleApi EXCEPT !.file = file]

ApiLoadEmailList ==
    /\ api.op = "none"
    /\ api' = [api EXCEPT !.op = "load_email_list",
                          !.emails = load_email_list_from(api.file)]
    /\ UNCHANGED <<settings_csv, env, files, run, sends, writers, runs_started>>

NextLoad == ApiLoadEmailList

SpecLoad == InitLoad /\ [][NextLoad]_vars

----------------------------------------------------------------------------
(* Properties *)

\* The entries of a ledger recorded for an address, compared as stored.
EntriesFor(progress_data, email) ==
    {k \in 1..Len(progress_data.sent_emails) :
        EntryEmail(progress_data.sent_emails[k]) = email}

\* The entries of a ledger recorded for an address, compared ignoring case.
EntriesForIgnoringCase(progress_data, email) ==
    {k \in 1..Len(progress_data.sent_emails) :
        Lower(EntryEmail(progress_data.sent_emails[k])) = Lower(email)}

\* A run that got past the early returns of run_email_campaign.
InLoop(r) == run[r].status \in {"sending", "finished"}

\* The number of recipients of run r whose outcome is recorded in memory.
Marked(r) ==
    CASE run[r].status = "finished" -> Len(run[r].target_emails)
      [] run[r].pc = "save" -> run[r].i
      [] OTHER -> run[r].i - 1

\* C1: across batch runs over the same list and ledger, including runs killed
\* anywhere in the per-recipient loop and restarted, no address is handed to
\* the send gateway more than once.
C1_NoDuplicateSends == \A a \in Addresses : sends[a] <= 1

\* C2: after any mark_email_sent calls on any ledger load_progress can return,
\* total_sent is the number of entries of sent_emails and successful + failed
\* is total_sent.
C2_StatsInvariant ==
    Len(api.calls) > 0 =>
        /\ api.progress_data.campaign_stats.total_sent = Len(api.progress_data.sent_emails)
        /\ api.progress_data.campaign_stats.successful
             + api.progress_data.campaign_stats.failed
           = api.progress_data.campaign_stats.total_sent

\* C3: two mark_email_sent calls whose addresses are equal ignoring case leave
\* exactly one record for that address, the one the first call wrote (stated
\* for addresses the ledger did not hold before the first of the calls).
C3_IdempotentIgnoringCase ==
    \A i, j \in 1..Len(api.calls) :
        ( /\ i < j
          /\ Lower(api.calls[i].email) = Lower(api.calls[j].email)
          /\ EntriesForIgnoringCase(api.loaded, api.calls[i].email) = {}
          /\ \A h \in 1..(i - 1) : Lower(api.calls[h].email) # Lower(api.calls[i].email) )
        => /\ Cardinality(EntriesForIgnoringCase(api.progress_data, api.calls[i].email)) = 1
           /\ \A k \in EntriesForIgnoringCase(api.progress_data, api.calls[i].email) :
                 api.progress_data.sent_emails[k] =
                     Entry(TRUE, api.calls[i].email,
                           IF api.calls[i].success THEN "T" ELSE "F", api.calls[i].error)

\* C4: no address get_unsent_emails returns equals, ignoring case, the address
\* of an entry of sent_emails, whether that entry is a success or a failure.
C4_UnsentDisjointFromSent ==
    api.op = "get_unsent_emails" =>
        \A k \in 1..Len(api.result) :
            EntriesForIgnoringCase(api.progress_data, api.result[k]) = {}

\* C4 witness: a list is returned while the ledger holds a failed attempt for
\* another address of the recipient list.
C4_Witness ==
    /\ api.op = "get_unsent_emails"
    /\ api.result # <<>>
    /\ \E k \in 1..Len(api.progress_data.sent_emails) :
          /\ api.progress_data.sent_emails[k].success = "F"
          /\ Lower(api.progress_data.sent_emails[k].email)
                \in Range(load_email_list(api.csv_file))

\* C5: batch runs triggered while another is in progress are serialized: no
\* two runs are both between loading the ledger and the end of their loop.
C5_RunsSerialized ==
    \A r, t \in Threads : r # t => ~(run[r].pc # "idle" /\ run[t].pc # "idle")

\* The batch-level preconditions of a run on a source: a content file, a
\* non-empty recipient list and an API key.
PreconditionFails(csv_file) ==
    \/ env.content = "missing"
    \/ load_email_list(csv_file) = <<>>
    \/ ~env.api_key

\* C6: when a batch-level precondition fails, the run makes no gateway call
\* and its ledger gains no attempt record.
C6_PreconditionStopsRun ==
    \A r \in Threads :
        (run[r].status # "none" /\ run[r].status # "killed"
            /\ PreconditionFails(run[r].csv_file))
        => /\ Len(run[r].progress_data.sent_emails) = run[r].base
           /\ \A k \in 1..Len(run[r].outcomes) : ~run[r].outcomes[k].called

\* C7: a failed recipient (gateway status, gateway exception or local
\* validation) is recorded once with success = false and its error, is handed
\* to the sender once, and the run goes on to the rest of the batch: a run
\* that finishes has attempted every sampled recipient.
C7_FailuresAreLocal ==
    \A r \in Threads :
        InLoop(r) =>
            /\ Len(run[r].outcomes) <= Len(run[r].target_emails)
            /\ \A k \in 1..Marked(r) :
                  /\ Cardinality(EntriesFor(run[r].progress_data, run[r].target_emails[k])) = 1
                  /\ ~run[r].outcomes[k].success =>
                        \A e \in EntriesFor(run[r].progress_data, run[r].target_emails[k]) :
                            run[r].progress_data.sent_emails[e] =
                                Entry(TRUE, run[r].target_emails[k], "F",
                                      ErrorMsg(run[r].outcomes[k]))
            /\ run[r].status = "finished" =>
                  /\ Len(run[r].outcomes) = Len(run[r].target_emails)
                  /\ run[r].successful_sends + run[r].failed_sends = Len(run[r].target_emails)
                  /\ run[r].failed_sends =
                        Cardinality({k \in 1..Len(run[r].outcomes) : ~run[r].outcomes[k].success})

\* C7 witness: a finished run whose first recipient failed at the gateway and
\* whose second recipient was sent.
C7_Witness ==
    \E r \in Threads :
        /\ run[r].status = "finished"
        /\ Len(run[r].outcomes) = 2
        /\ run[r].outcomes[1].called /\ ~run[r].outcomes[1].success
        /\ run[r].outcomes[2].success

\* C8: when every address of the (non-empty) recipient list has an attempt
\* record, whatever else the ledger holds, the run reports 'complete'.
C8_CompleteWhenNothingUnsent ==
    \A r \in Threads :
        ( /\ run[r].status # "none" /\ run[r].status # "killed"
          /\ load_email_list(run[r].csv_file) # <<>>
          /\ run[r].unsent_n = 0 )
        => run[r].status = "complete"

\* The ledger file of run r holds a record for each of its first n recipients.
Persisted(r, n) ==
    LET file == files[ProgressFile(run[r].csv_file)]
    IN /\ file.kind = "json"
       /\ \A k \in 1..n : EntriesFor(file.data, run[r].target_emails[k]) # {}

\* C9 as stated: whenever the send for recipient n+1 begins, the persisted
\* ledger holds a record for each of recipients 1..n of the run.
C9_PersistedBeforeNextSend ==
    \A r \in Threads :
        (run[r].pc = "send" /\ run[r].i > 1) => Persisted(r, run[r].i - 1)

\* C9 amended: send, mark_email_sent and save_progress happen in that order
\* for each recipient; when the send for recipient n+1 begins the in-memory
\* ledger holds a record for each of recipients 1..n, and so does the
\* persisted ledger if the last write of the ledger file was this run's
\* successful save_progress for recipient n.
C9_PersistedIfSaved ==
    \A r \in Threads :
        /\ run[r].pc = "mark" => Len(run[r].outcomes) = run[r].i
        /\ run[r].pc = "save" =>
              EntriesFor(run[r].progress_data, run[r].target_emails[run[r].i]) # {}
        /\ run[r].pc = "send" =>
              /\ Len(run[r].outcomes) = run[r].i - 1
              /\ \A k \in 1..(run[r].i - 1) :
                    EntriesFor(run[r].progress_data, run[r].target_emails[k]) # {}
              /\ (run[r].i > 1 /\ run[r].saved_ok) => Persisted(r, run[r].i - 1)

\* C9 witness: the second send of a run begins after the first recipient's
\* record was written to the file.
C9_Witness ==
    \E r \in Threads :
        /\ run[r].pc = "send"
        /\ run[r].i = 2
        /\ run[r].saved_ok
        /\ Persisted(r, 1)

\* C10: the records a run reads from its ledger file were written for its own
\* source, never for another one.
C10_NoCrossContamination ==
    \A r \in Threads :
        (run[r].status # "none" /\ run[r].status # "killed")
        => run[r].read_from \subseteq {run[r].csv_file}

\* Run r has called save_progress and its in-memory ledger is still the one
\* that call left.
AfterSave(r) ==
    /\ run[r].io # "none"
    /\ InLoop(r)
    /\ run[r].pc # "save"

\* The loop of run r is where it is after Marked(r) recipients were saved:
\* at the next recipient, or at the summary after the last one.
LoopContinues(r) ==
    /\ InLoop(r)
    /\ run[r].pc = "send" => /\ run[r].i = Len(run[r].outcomes) + 1
                             /\ run[r].i <= Len(run[r].target_emails)
    /\ run[r].status = "finished" => Len(run[r].outcomes) = Len(run[r].target_emails)

\* The ledger file of run r holds exactly the run's in-memory ledger, with a
\* record for every recipient the run has got to so far.
CompleteLedgerWritten(r) ==
    /\ files[ProgressFile(run[r].csv_file)] = JsonFile(run[r].progress_data)
    /\ Len(run[r].progress_data.sent_emails) = run[r].base + Marked(r)
    /\ Persisted(r, Marked(r))

\* C11 as stated: after a save_progress that failed, the run goes on with the
\* next recipient and its in-memory ledger (attempts and stats) is exactly
\* what it was before the call; after one that succeeded, the file holds the
\* complete in-memory ledger.
C11_FailedPersistLeavesLedger ==
    \A r \in Threads :
        AfterSave(r) =>
            /\ run[r].io # "ok" => /\ LoopContinues(r)
                                   /\ run[r].progress_data = run[r].before_save
            /\ run[r].saved_ok => CompleteLedgerWritten(r)

\* C11 amended: after a save_progress that failed, the run goes on with the
\* next recipient and its in-memory ledger has the attempts and the counts
\* total_sent, successful and failed it had before the call, only last_run
\* being stamped; after a later save_progress that succeeds, the file holds
\* the complete in-memory ledger, the attempts whose persist failed included.
C11_FailedPersistKeepsAttempts ==
    \A r \in Threads :
        AfterSave(r) =>
            /\ run[r].io # "ok" =>
                  /\ LoopContinues(r)
                  /\ run[r].progress_data.sent_emails = run[r].before_save.sent_emails
                  /\ run[r].progress_data.campaign_stats =
                        [run[r].before_save.campaign_stats EXCEPT !.last_run = 1]
            /\ run[r].saved_ok => CompleteLedgerWritten(r)

\* A run whose first persist failed and whose second succeeded: the file
\* holds both records.
C11_Witness ==
    \E r \in Threads :
        /\ run[r].status = "finished"
        /\ run[r].failed_persists = 1
        /\ run[r].io = "ok"
        /\ run[r].saved_ok
        /\ Len(run[r].target_emails) = 2
        /\ Len(files[ProgressFile(run[r].csv_file)].data.sent_emails) = run[r].base + 2

\* C12: a run that finds no ledger file, an unparseable one, or one whose
\* content parses but has not the ledger's shape, does not raise and goes on
\* as a run with no history: nothing counts as attempted and every listed
\* address is unsent.
C12_FreshWhenAbsentOrCorrupt ==
    \A r \in Threads :
        run[r].ledger_state \in {"absent", "corrupt", "json_non_object", "misshapen"}
        => /\ run[r].status # "raised"
           /\ run[r].base = 0
           /\ run[r].unsent_n = Len(load_email_list(run[r].csv_file))
           /\ run[r].remaining = run[r].unsent_n

\* The arguments of the last send_email call pass the local validation of
\* sender, recipients and subject.
LocallyValid(call) ==
    /\ validate_email(call.from_email)
    /\ call.to_emails # <<>>
    /\ \A k \in 1..Len(call.to_emails) : validate_email(call.to_emails[k])
    /\ Strip(call.subject) # ""

AcceptedAddresses(file) ==
    {Lower(Strip(file.rows[k])) :
        k \in {j \in 1..Len(file.rows) :
                  file.rows[j] # NoCell /\ AcceptedCell(Strip(file.rows[j]))}}

\* The first row of a file whose cell normalises to address a.
FirstRow(file, a) ==
    CHOOSE k \in 1..Len(file.rows) :
        /\ file.rows[k] # NoCell
        /\ Lower(Strip(file.rows[k])) = a
        /\ \A j \in 1..(k - 1) : file.rows[j] = NoCell \/ Lower(Strip(file.rows[j])) # a

\* The place of address a in list s.
IndexOf(s, a) == CHOOSE k \in 1..Len(s) : s[k] = a

\* C14: for a source with accepted cells, load_email_list returns each
\* accepted address, lower-cased, exactly once (cells that differ in case or
\* surrounding whitespace being one address), in the order of first
\* occurrence in the source.
C14_EachAcceptedAddressOnce ==
    api.op = "load_email_list" =>
        LET emails == api.emails
            accepted == AcceptedAddresses(api.file)
        IN /\ \A i, j \in 1..Len(emails) : i # j => emails[i] # emails[j]
           /\ \A i \in 1..Len(emails) : emails[i] = Lower(emails[i])
           /\ accepted \subseteq Range(emails)
           /\ \A a, b \in accepted :
                 FirstRow(api.file, a) < FirstRow(api.file, b)
                 => IndexOf(emails, a) < IndexOf(emails, b)

\* Some encoding reads the whole file without an exception.
Parses(file) == \E e \in 1..Len(Encodings) : ReadUnder(file, Encodings[e]).ok

\* The first such encoding.
FirstParsing(file) ==
    Encodings[CHOOSE e \in 1..Len(Encodings) :
                 /\ ReadUnder(file, Encodings[e]).ok
                 /\ \A d \in 1..(e - 1) : ~ReadUnder(file, Encodings[d]).ok]

\* C16: the list load_email_list returns is built from the first encoding
\* under which the file parses, and from no other: no address read under a
\* later encoding or under an encoding that failed part-way is in it.
C16_FirstParsingEncodingOnly ==
    (api.op = "load_email_list" /\ Parses(api.file)) =>
        api.emails = Dedup(ReadRows(ReadUnder(api.file, FirstParsing(api.file)).cells))

\* Run r has got past the status decision of run_email_campaign.
Decided(r) == run[r].status \in {"complete", "no_emails", "no_key", "sending", "finished"}

\* The unsent set run r started with: the listed addresses without a record
\* among the entries the ledger had at load.
UnsentAtLoad(r) ==
    LET at_load == [run[r].progress_data EXCEPT
                       !.sent_emails = SubSeq(@, 1, run[r].base)]
    IN Range(UnsentEmails(at_load, load_email_list(run[r].csv_file)))

\* C15: a run started with a non-empty unsent set, a positive limit, an API
\* key, a valid sender and usable content goes to Sending with a batch of
\* exactly min(limit, |unsent|) distinct recipients drawn from the unsent
\* set, and at Finished the successful and failed counts sum to the batch
\* size and the ledger has gained exactly that many records.
C15_BatchRunsToFinished ==
    \A r \in Threads :
        (/\ Decided(r)
         /\ run[r].unsent_n > 0
         /\ run[r].batch_size >= 1
         /\ ~PreconditionFails(run[r].csv_file))
        => /\ InLoop(r)
           /\ Len(run[r].target_emails) = Min(run[r].batch_size, run[r].unsent_n)
           /\ \A i, j \in 1..Len(run[r].target_emails) :
                 i # j => run[r].target_emails[i] # run[r].target_emails[j]
           /\ Range(run[r].target_emails) \subseteq UnsentAtLoad(r)
           /\ run[r].status = "finished" =>
                 /\ run[r].successful_sends + run[r].failed_sends
                       = Len(run[r].target_emails)
                 /\ Len(run[r].progress_data.sent_emails)
                       = run[r].base + Len(run[r].target_emails)

\* C17: a run reports complete only when its unsent set is empty; a run with
\* an unsent address does not report complete, and the remaining count the
\* run decides on is the size of the unsent set, never negative.
C17_CompleteOnlyWhenUnsentEmpty ==
    \A r \in Threads :
        Decided(r) =>
            /\ run[r].status = "complete" => run[r].unsent_n = 0
            /\ run[r].remaining = run[r].unsent_n
            /\ run[r].remaining >= 0

====
